---- MODULE Spec2Model ----
(***************************************************************************)
(* tap-sftp-files: model of download() and its helpers                     *)
(* (src/tap_sftp_files/__init__.py).                                       *)
(*                                                                         *)
(* Paths are sequences of path components: "/a/sub/foo2.csv" is            *)
(* <<"a", "sub", "foo2.csv">>.  An absent (None) path or list is <<>>,     *)
(* which Python's truth tests in download() treat like None.  The value    *)
(* None of the removal counter is the integer NoneCount.                   *)
(***************************************************************************)
EXTENDS Integers, Sequences, FiniteSets, TLC

\* ------------------------------------------------------------------ bounds
MaxN == 3
MaxRuns == 2

\* ------------------------------------------------- the remote store fixture
A == <<"a">>
ABar == <<"a", "bar.csv">>
AFoo == <<"a", "foo.csv">>
ASub == <<"a", "sub">>
ASubFoo2 == <<"a", "sub", "foo2.csv">>
X == <<"x">>
Y == <<"y">>
X1 == <<"x", "1.csv">>
Y1 == <<"y", "1.csv">>
D == <<"d">>
DN == <<"d", "n">>
D1 == <<"d", "1.csv">>
D2 == <<"d", "2.csv">>
DN3 == <<"d", "n", "3.csv">>
DN4 == <<"d", "n", "4.csv">>
D5 == <<"d", "5.csv">>
Out == <<"out">>

\* The directories of the remote store and the names each one lists, in the
\* order listdir returns them.
RemoteDirs == {A, ASub, X, Y, D, DN}
RemoteLs == [d \in RemoteDirs |->
               IF d = A THEN <<"bar.csv", "foo.csv", "sub">>
               ELSE IF d = ASub THEN <<"foo2.csv">>
               ELSE IF d = D THEN <<"1.csv", "2.csv", "5.csv", "n">>
               ELSE IF d = DN THEN <<"3.csv", "4.csv">>
               ELSE <<"1.csv">>]
RemoteFiles == {ABar, AFoo, ASubFoo2, X1, Y1, D1, D2, DN3, DN4, D5}

\* The bytes of a remote file, one distinct value per file.
Content == [f \in RemoteFiles |->
              IF f = ABar THEN "bytes_a_bar"
              ELSE IF f = AFoo THEN "bytes_a_foo"
              ELSE IF f = ASubFoo2 THEN "bytes_a_sub_foo2"
              ELSE IF f = X1 THEN "bytes_x_1"
              ELSE IF f = Y1 THEN "bytes_y_1"
              ELSE IF f = D1 THEN "bytes_d_1"
              ELSE IF f = D2 THEN "bytes_d_2"
              ELSE IF f = DN3 THEN "bytes_d_n_3"
              ELSE IF f = DN4 THEN "bytes_d_n_4"
              ELSE "bytes_d_5"]

\* What a transfer that raises leaves at the local path, which it has opened
\* for writing before it reads the remote file: no bytes, or the bytes
\* received before the failure.
Truncated == {"", "partial"}

NoneCount == -1

\* ----------------------------------------------------------- small helpers
Last(s) == s[Len(s)]

Put(f, k, v) == [x \in (DOMAIN f) \cup {k} |-> IF x = k THEN v ELSE f[x]]

Drop(f, k) == [x \in (DOMAIN f) \ {k} |-> f[x]]

EmptyMap == [x \in {} |-> 0]

IsPrefix(p, q) == Len(p) <= Len(q) /\ SubSeq(q, 1, Len(p)) = p

Entry(op, path, ok, to) == [op |-> op, path |-> path, ok |-> ok, to |-> to]

\* calculate_md5: the digest of a file's bytes (one digest per content).
calculate_md5(bytes) == <<"md5", bytes>>

\* ------------------------------------------------------- the configurations
FileLists == {<<>>, <<X1, Y1>>, <<ABar, AFoo, ASubFoo2>>}
PathPrefixes == {<<>>, A, X, D}
TableLists == {<<>>, <<"foo">>}

\* the state file found by the first run: missing (load_json gives an empty
\* dict) or left by an earlier run that saw other bytes at /x/1.csv; only
\* incremental runs read it
StaleLedger == [k \in {X1} |-> calculate_md5("bytes_x_1_old")]
Ledgers == {EmptyMap, StaleLedger}

Configs == [files : FileLists,
            path_prefix : PathPrefixes,
            target_dir : {Out},
            recursive_clone : BOOLEAN,
            exact_directory : BOOLEAN,
            tables : TableLists,
            delete_after_sync : BOOLEAN,
            incremental_mode : BOOLEAN,
            max_file_count : 0..MaxN]

VARIABLES config, run, pc, idx, rfiles, rdirs, local, ldirs, args_state, state, persisted,
          removed_file_count, current_file_count, walk_todo, log, writes,
          start_rfiles, prev_done

vars == <<config, run, pc, idx, rfiles, rdirs, local, ldirs, args_state, state, persisted,
          removed_file_count, current_file_count, walk_todo, log, writes,
          start_rfiles, prev_done>>

\* ------------------------------------------------------- code conditions
\* the cap test letting one more transfer through
stop_get_files_late(cur, max) == cur > max

\* LimitedFilesConnection.stop_get_files
stop_get_files(cur, max) == cur >= max

\* download chooses LimitedFilesConnection exactly when max_file_count is truthy
Limited == config.max_file_count # 0

\* the single-file test with the budget comparison left out
BudgetLeftAlways(count, max) == TRUE

\* sftp_remove's test for the single-file branch
BudgetLeft(count, max) == (max # 0 /\ count < max) \/ max = 0

\* rm's test that ends its loop
BudgetStop(count, max) == max # 0 /\ count >= max

\* the validation left out
LimitNeverRejected(cfg) == FALSE

\* download's validation of max_file_count
LimitWithoutDelete(cfg) == cfg.max_file_count # 0 /\ ~cfg.delete_after_sync

\* the main-phase deletion issued in incremental runs too
MainDeleteAlways(cfg) == TRUE

\* download's "if not incremental_mode" before each main-phase sftp_remove
MainDelete(cfg) == ~cfg.incremental_mode

\* the target keeping the directories of the remote path
FlatTargetFullPath(target_dir, file) == target_dir \o file

\* the local target of a file of the files list
FlatTarget(target_dir, file) == target_dir \o <<Last(file)>>

\* ------------------------------------------------------ the remote store
NoFault == Entry("none", <<>>, TRUE, <<>>)

\* listdir: the names a directory lists, in listing order; a removed file
\* is no longer listed.
Listdir(d, rf) ==
    SelectSeq(RemoteLs[d], LAMBDA n : (d \o <<n>>) \in RemoteDirs \/ (d \o <<n>>) \in rf)

RECURSIVE WalkFrom(_, _, _, _)
\* walktree: the regular files below a directory, depth first in listing order.
WalkFiles(d, rf) == WalkFrom(d, Listdir(d, rf), 1, rf)

WalkFrom(d, names, k, rf) ==
    IF k > Len(names) THEN <<>>
    ELSE LET p == d \o <<names[k]>>
         IN (IF p \in RemoteDirs THEN WalkFiles(p, rf) ELSE <<p>>)
            \o WalkFrom(d, names, k + 1, rf)

RECURSIVE WalkDirsFrom(_, _, _, _)
\* walktree: the directories it lists, the root first.
WalkDirs(d, rf) == <<d>> \o WalkDirsFrom(d, Listdir(d, rf), 1, rf)

WalkDirsFrom(d, names, k, rf) ==
    IF k > Len(names) THEN <<>>
    ELSE LET p == d \o <<names[k]>>
         IN (IF p \in RemoteDirs THEN WalkDirs(p, rf) ELSE <<>>)
            \o WalkDirsFrom(d, names, k + 1, rf)

\* the direct regular-file children of a directory (get_d)
DirectFiles(d, rf) ==
    LET names == SelectSeq(Listdir(d, rf), LAMBDA n : (d \o <<n>>) \notin RemoteDirs)
    IN [k \in 1..Len(names) |-> d \o <<names[k]>>]

\* ------------------------------------------------------------------- rm
RECURSIVE rm(_, _, _, _), rmLoop(_, _, _, _, _, _), rmDir(_, _, _, _)
\* rm(sftp_conn, remote_path, removed_file_count, max_file_count).  st holds
\* the remote files, the running count, the calls issued and whether an
\* exception is propagating; fault names the one call that raises.
rm(remote_path, st, max_file_count, fault) ==
    IF fault = Entry("listdir", remote_path, FALSE, <<>>)
    THEN [st EXCEPT !.log = Append(@, fault), !.raised = TRUE]
    ELSE rmLoop(remote_path, Listdir(remote_path, st.rfiles), 1,
                [st EXCEPT !.log = Append(@, Entry("listdir", remote_path, TRUE, <<>>))],
                max_file_count, fault)

rmLoop(remote_path, files, k, st, max_file_count, fault) ==
    IF st.raised \/ k > Len(files) \/ BudgetStop(st.count, max_file_count) THEN st
    ELSE LET filepath == remote_path \o <<files[k]>>
             st2 == IF filepath \in RemoteDirs
                    THEN rmDir(filepath, st, max_file_count, fault)
                    ELSE IF fault = Entry("remove", filepath, FALSE, <<>>)
                    THEN [st EXCEPT !.log = Append(@, fault), !.raised = TRUE]
                    ELSE [st EXCEPT !.log = Append(@, Entry("remove", filepath, TRUE, <<>>)),
                                    !.rfiles = @ \ {filepath},
                                    !.count = @ + 1]
         IN rmLoop(remote_path, files, k + 1, st2, max_file_count, fault)

\* the directory branch followed by an rmdir of the directory it emptied
rmDirThenRmdir(filepath, st, max_file_count, fault) ==
    LET r == rm(filepath, st, max_file_count, fault)
    IN IF ~r.raised /\ {f \in r.rfiles : IsPrefix(filepath, f)} = {}
       THEN [r EXCEPT !.rdirs = @ \ {filepath}]
       ELSE r

\* rm's directory branch: removed_file_count = rm(sftp_conn, filepath, ...);
\* the directory itself is left in place
rmDir(filepath, st, max_file_count, fault) == rm(filepath, st, max_file_count, fault)

\* the calls of rm that can raise: a listing of a directory below the path,
\* or the removal of a file below it
RmFaults(remote_path, rf) ==
    {NoFault}
    \cup {Entry("listdir", d, FALSE, <<>>) : d \in {d \in RemoteDirs : IsPrefix(remote_path, d)}}
    \cup {Entry("remove", f, FALSE, <<>>) : f \in {f \in rf : IsPrefix(remote_path, f)}}

\* ---------------------------------------------------------- sftp_remove
\* sftp_remove(sftp_conn, delete_after_sync, remote_file, remote_path,
\* removed_file_count, max_file_count): the value returned and the effect on
\* the remote store.  remote_file and remote_path are <<>> when not passed;
\* every exception is caught by the bare except.
sftp_remove(delete_after_sync, remote_file, remote_path, st, max_file_count, fault) ==
    IF ~delete_after_sync THEN [st EXCEPT !.count = NoneCount]
    ELSE IF remote_file # <<>> /\ BudgetLeft(st.count, max_file_count)
    THEN IF fault = Entry("remove", remote_file, FALSE, <<>>) \/ remote_file \notin st.rfiles
         THEN [st EXCEPT !.log = Append(@, Entry("remove", remote_file, FALSE, <<>>))]
         ELSE [st EXCEPT !.log = Append(@, Entry("remove", remote_file, TRUE, <<>>)),
                         !.rfiles = @ \ {remote_file},
                         !.count = @ + 1]
    ELSE IF remote_path # <<>>
    THEN LET r == rm(remote_path, st, max_file_count, fault)
         IN IF r.raised THEN [r EXCEPT !.count = st.count, !.raised = FALSE] ELSE r
    ELSE st

\* ------------------------------------------------------------------ get
\* sftp.get(remotepath, localpath) on the session download opened: the
\* LimitedFilesConnection override when limited, pysftp's get otherwise.
\* st holds the local files, the session's current_file_count, the calls
\* issued and whether an exception is propagating.  The transfer opens
\* localpath for writing first, so a get that raises leaves a truncated file
\* there: an empty one when the remote file is missing, otherwise the bytes
\* in left.
Get(limited, max_file_count, rf, remotepath, localpath, st, fails, left) ==
    IF limited /\ stop_get_files(st.cur, max_file_count) THEN st
    ELSE LET cur2 == IF limited THEN st.cur + 1 ELSE st.cur
         IN IF fails \/ remotepath \notin rf
            THEN [st EXCEPT !.cur = cur2, !.raised = TRUE,
                            !.local = Put(@, localpath,
                                          IF remotepath \notin rf THEN "" ELSE left),
                            !.log = Append(@, Entry("get", remotepath, FALSE, localpath))]
            ELSE [st EXCEPT !.cur = cur2,
                            !.local = Put(@, localpath, Content[remotepath]),
                            !.log = Append(@, Entry("get", remotepath, TRUE, localpath))]

RECURSIVE GetAll(_, _, _, _, _, _, _, _)
\* the loop of get_d over the files found; failAt is the position of the get
\* that raises (0: none), left what it leaves behind
GetAll(limited, max_file_count, rf, pairs, k, st, failAt, left) ==
    IF st.raised \/ k > Len(pairs) THEN st
    ELSE GetAll(limited, max_file_count, rf, pairs, k + 1,
                Get(limited, max_file_count, rf, pairs[k].remote, pairs[k].to, st,
                    k = failAt, left),
                failAt, left)

\* the directories walktree reports to get_r (every directory below the
\* root), as the local directories get_r maps them to
TreeLocalDirs(cfg, rf) ==
    LET ds == WalkDirs(cfg.path_prefix, rf)
    IN {cfg.target_dir \o (IF cfg.recursive_clone
                           THEN SubSeq(ds[k], Len(cfg.path_prefix) + 1, Len(ds[k]))
                           ELSE ds[k]) : k \in 2..Len(ds)}

\* get_r's first loop: os.mkdir for every path_advance step of every
\* directory reported, an existing directory skipped (except OSError: pass);
\* only a directory created by this call joins dlist
MkdirReported(target_dir, dl0, st) ==
    LET steps == UNION {{SubSeq(q, 1, k) : k \in (Len(target_dir) + 1)..Len(q)} : q \in dl0}
    IN [st EXCEPT !.dlist = dl0 \cup (steps \ st.ldirs),
                  !.ldirs = @ \cup steps]

RECURSIVE MkdirHead(_, _, _)
\* get_r's second loop, for a file whose directory is not in dlist: os.mkdir
\* for each path_advance step not in dlist, with no handler, so a directory
\* that exists locally raises FileExistsError
MkdirHead(head, k, st) ==
    IF st.raised \/ k > Len(head) THEN st
    ELSE LET subdir == SubSeq(head, 1, k)
         IN MkdirHead(head, k + 1,
                      IF subdir \in st.dlist THEN st
                      ELSE IF subdir \in st.ldirs THEN [st EXCEPT !.raised = TRUE]
                      ELSE [st EXCEPT !.ldirs = @ \cup {subdir}, !.dlist = @ \cup {subdir}])

RECURSIVE get_rLoop(_, _, _, _, _, _, _, _, _)
\* get_r's second loop: the local directory of each file made if it is not
\* in dlist, then self.get
get_rLoop(limited, max_file_count, rf, target_dir, pairs, k, st, failAt, left) ==
    IF st.raised \/ k > Len(pairs) THEN st
    ELSE LET head == SubSeq(pairs[k].to, 1, Len(pairs[k].to) - 1)
             st1 == IF head = target_dir \/ head \in st.dlist THEN st
                    ELSE MkdirHead(head, Len(target_dir) + 1, st)
             st2 == IF st1.raised THEN st1
                    ELSE Get(limited, max_file_count, rf, pairs[k].remote, pairs[k].to,
                             st1, k = failAt, left)
         IN get_rLoop(limited, max_file_count, rf, target_dir, pairs, k + 1, st2, failAt, left)

\* get_r(remotedir, localdir) once walktree has listed the tree
get_r(limited, max_file_count, rf, cfg, pairs, st, failAt, left) ==
    get_rLoop(limited, max_file_count, rf, cfg.target_dir, pairs, 1,
              MkdirReported(cfg.target_dir, TreeLocalDirs(cfg, rf), st), failAt, left)

\* the files a path_prefix run fetches and where each one lands:
\* recursive_clone: cd(remote_path), get_r(".", target_dir);
\* exact_directory: get_d(remote_path, target_dir);
\* otherwise get_r(remote_path, target_dir), which recreates the remote path
\* below target_dir.
TreePairs(cfg, rf) ==
    LET root == cfg.path_prefix
        fs == IF cfg.recursive_clone THEN WalkFiles(root, rf)
              ELSE IF cfg.exact_directory THEN DirectFiles(root, rf)
              ELSE WalkFiles(root, rf)
    IN [k \in 1..Len(fs) |->
          [remote |-> fs[k],
           to |-> IF cfg.recursive_clone
                  THEN cfg.target_dir \o SubSeq(fs[k], Len(root) + 1, Len(fs[k]))
                  ELSE IF cfg.exact_directory
                  THEN cfg.target_dir \o <<Last(fs[k])>>
                  ELSE cfg.target_dir \o fs[k]]]

\* the directories a path_prefix run lists before it fetches
TreeDirs(cfg, rf) ==
    IF cfg.recursive_clone THEN WalkDirs(cfg.path_prefix, rf)
    ELSE IF cfg.exact_directory THEN <<cfg.path_prefix>>
    ELSE WalkDirs(cfg.path_prefix, rf)

\* the listings issued when the ld-th one raises (0: none raises)
ListLog(dirs, ld) ==
    [k \in 1..(IF ld = 0 THEN Len(dirs) ELSE ld) |-> Entry("listdir", dirs[k], k # ld, <<>>)]

\* ----------------------------------------------------------- reconcile
RECURSIVE FindFirst(_, _, _)
\* the offset of the first occurrence of t in s at or after k, -1 if none
FindFirst(s, t, k) ==
    IF k + Len(t) > Len(s) THEN -1
    ELSE IF SubSeq(s, k + 1, k + Len(t)) = t THEN k
    ELSE FindFirst(s, t, k + 1)

\* local_file_path.replace(target_dir, remote_path, 1)
RemoteKey(local_file_path, target_dir, remote_path) ==
    LET k == FindFirst(local_file_path, target_dir, 0)
    IN IF k < 0 THEN local_file_path
       ELSE SubSeq(local_file_path, 1, k) \o remote_path
            \o SubSeq(local_file_path, k + Len(target_dir) + 1, Len(local_file_path))

\* file_hash == state.get(remote_file_path)
AlreadySynced(file_hash, st, remote_file_path) ==
    remote_file_path \in DOMAIN st /\ st[remote_file_path] = file_hash

\* the hash stored only for a path the ledger does not hold yet
StoreHashIfNew(st, remote_file_path, file_hash) ==
    IF remote_file_path \in DOMAIN st THEN st ELSE Put(st, remote_file_path, file_hash)

\* state[remote_file_path] = file_hash
StoreHash(st, remote_file_path, file_hash) == Put(st, remote_file_path, file_hash)

\* the ledger written from inside the walk
LedgerWriteAnyTime(todo) == TRUE

\* json.dump follows the walk: the ledger is written when no file is left
LedgerWriteDue(todo) == todo = {}

\* ================================================================ actions
Init ==
    /\ config \in Configs
    /\ run = 1
    /\ pc = "start"
    /\ idx = 1
    /\ rfiles = RemoteFiles
    /\ rdirs = RemoteDirs
    /\ local = EmptyMap
    /\ ldirs = {}
    /\ persisted \in (IF config.incremental_mode THEN Ledgers ELSE {EmptyMap})
    /\ args_state = persisted
    /\ state = EmptyMap
    /\ removed_file_count = 0
    /\ current_file_count = 0
    /\ walk_todo = {}
    /\ log = <<>>
    /\ writes = 0
    /\ start_rfiles = RemoteFiles
    /\ prev_done = FALSE

\* download, up to the choice of the selection branch: the max_file_count
\* validation and the missing-selection error, both raised with no session
Validate ==
    /\ pc = "start"
    /\ pc' = IF LimitWithoutDelete(config) THEN "failed"
             ELSE IF config.files # <<>> \/ config.path_prefix # <<>> THEN "connect"
             ELSE "failed"
    /\ UNCHANGED <<config, run, idx, rfiles, rdirs, local, ldirs, args_state, state, persisted,
                   removed_file_count, current_file_count, walk_todo, log, writes,
                   start_rfiles, prev_done>>

\* with sftp_connector(host, **connection_config) as sftp
Connect ==
    /\ pc = "connect"
    /\ \E ok \in BOOLEAN :
         /\ log' = Append(log, Entry("connect", <<>>, ok, <<>>))
         /\ pc' = IF ~ok THEN "failed"
                  ELSE IF config.files # <<>> THEN "get" ELSE "get_tree"
    /\ current_file_count' = 0
    /\ idx' = 1
    /\ UNCHANGED <<config, run, rfiles, rdirs, local, ldirs, args_state, state, persisted,
                   removed_file_count, walk_todo, writes, start_rfiles, prev_done>>

\* files branch, one file: sftp.get(file, target)
GetFile ==
    /\ pc = "get"
    /\ idx <= Len(config.files)
    /\ \E fails \in BOOLEAN, left \in Truncated :
         LET file == config.files[idx]
             r == Get(Limited, config.max_file_count, rfiles, file,
                      FlatTarget(config.target_dir, file),
                      [local |-> local, cur |-> current_file_count, log |-> log,
                       raised |-> FALSE], fails, left)
         IN /\ local' = r.local
            /\ current_file_count' = r.cur
            /\ log' = r.log
            /\ pc' = IF r.raised THEN "failed"
                     ELSE IF MainDelete(config) THEN "remove"
                     ELSE IF idx = Len(config.files) THEN "closed" ELSE "get"
            /\ idx' = IF ~r.raised /\ ~MainDelete(config) THEN idx + 1 ELSE idx
    /\ UNCHANGED <<config, run, rfiles, rdirs, ldirs, args_state, state, persisted,
                   removed_file_count, walk_todo, writes, start_rfiles, prev_done>>

\* files branch, one file: sftp_remove(sftp, delete_after_sync, remote_file=file, ...)
RemoveFile ==
    /\ pc = "remove"
    /\ \E fault \in {NoFault, Entry("remove", config.files[idx], FALSE, <<>>)} :
         LET r == sftp_remove(config.delete_after_sync, config.files[idx], <<>>,
                              [rfiles |-> rfiles, rdirs |-> rdirs, count |-> removed_file_count,
                               log |-> log, raised |-> FALSE],
                              config.max_file_count, fault)
         IN /\ rfiles' = r.rfiles
            /\ rdirs' = r.rdirs
            /\ removed_file_count' = r.count
            /\ log' = r.log
    /\ pc' = IF idx = Len(config.files) THEN "closed" ELSE "get"
    /\ idx' = idx + 1
    /\ UNCHANGED <<config, run, local, ldirs, args_state, state, persisted,
                   current_file_count, walk_todo, writes, start_rfiles, prev_done>>

\* path_prefix branch: get_r / get_d of the whole tree
DownloadTree ==
    /\ pc = "get_tree"
    /\ LET dirs == TreeDirs(config, rfiles)
           pairs == TreePairs(config, rfiles)
           st0 == [local |-> local, ldirs |-> ldirs, dlist |-> {},
                   cur |-> current_file_count, log |-> log, raised |-> FALSE]
       IN \E ld \in 0..Len(dirs), k \in 0..Len(pairs), left \in Truncated :
            /\ ld = 0 \/ k = 0
            /\ LET r == IF ld # 0
                        THEN [st0 EXCEPT !.log = @ \o ListLog(dirs, ld), !.raised = TRUE]
                        ELSE IF config.exact_directory /\ ~config.recursive_clone
                        THEN GetAll(Limited, config.max_file_count, rfiles, pairs, 1,
                                    [st0 EXCEPT !.log = @ \o ListLog(dirs, 0)], k, left)
                        ELSE get_r(Limited, config.max_file_count, rfiles, config, pairs,
                                   [st0 EXCEPT !.log = @ \o ListLog(dirs, 0)], k, left)
               IN /\ local' = r.local
                  /\ ldirs' = r.ldirs
                  /\ current_file_count' = r.cur
                  /\ log' = r.log
                  /\ pc' = IF r.raised THEN "failed"
                           ELSE IF MainDelete(config) THEN "remove_tree"
                           ELSE "closed"
    /\ UNCHANGED <<config, run, idx, rfiles, rdirs, args_state, state, persisted,
                   removed_file_count, walk_todo, writes, start_rfiles, prev_done>>

\* path_prefix branch: sftp_remove(sftp, delete_after_sync, remote_path=remote_path, ...)
RemoveTree ==
    /\ pc = "remove_tree"
    /\ \E fault \in RmFaults(config.path_prefix, rfiles) :
         LET r == sftp_remove(config.delete_after_sync, <<>>, config.path_prefix,
                              [rfiles |-> rfiles, rdirs |-> rdirs, count |-> removed_file_count,
                               log |-> log, raised |-> FALSE],
                              config.max_file_count, fault)
         IN /\ rfiles' = r.rfiles
            /\ rdirs' = r.rdirs
            /\ removed_file_count' = r.count
            /\ log' = r.log
    /\ pc' = "closed"
    /\ UNCHANGED <<config, run, idx, local, ldirs, args_state, state, persisted,
                   current_file_count, walk_todo, writes, start_rfiles, prev_done>>

\* a run without incremental_mode ends once the session is closed
Finish ==
    /\ pc = "closed"
    /\ ~config.incremental_mode
    /\ pc' = "done"
    /\ UNCHANGED <<config, run, idx, rfiles, rdirs, local, ldirs, args_state, state, persisted,
                   removed_file_count, current_file_count, walk_todo, log, writes,
                   start_rfiles, prev_done>>

\* incremental_mode: state = args.state or dict(); os.walk(target_dir)
BeginReconcile ==
    /\ pc = "closed"
    /\ config.incremental_mode
    /\ state' = args_state
    /\ walk_todo' = DOMAIN local
    /\ pc' = "walk"
    /\ UNCHANGED <<config, run, idx, rfiles, rdirs, local, ldirs, args_state, persisted,
                   removed_file_count, current_file_count, log, writes,
                   start_rfiles, prev_done>>

\* the body of the walk for one local file.  replace() raises TypeError when
\* path_prefix is absent; pysftp.Connection(host, **connection_config) raises
\* TypeError when connection_config carries max_file_count.
ReconcileFile ==
    /\ pc = "walk"
    /\ \E local_file_path \in walk_todo :
         IF config.path_prefix = <<>>
         THEN /\ pc' = "failed"
              /\ UNCHANGED <<local, state, walk_todo, rfiles, rdirs, removed_file_count, log>>
         ELSE LET remote_file_path == RemoteKey(local_file_path, config.target_dir,
                                                config.path_prefix)
                  file_hash == calculate_md5(local[local_file_path])
              IN IF AlreadySynced(file_hash, state, remote_file_path)
                 THEN /\ local' = Drop(local, local_file_path)
                      /\ state' = StoreHash(state, remote_file_path, file_hash)
                      /\ walk_todo' = walk_todo \ {local_file_path}
                      /\ pc' = "walk"
                      /\ UNCHANGED <<rfiles, rdirs, removed_file_count, log>>
                 ELSE IF Limited
                 THEN /\ pc' = "failed"
                      /\ UNCHANGED <<local, state, walk_todo, rfiles, rdirs, removed_file_count, log>>
                 ELSE \E ok \in BOOLEAN,
                         fault \in {NoFault, Entry("remove", remote_file_path, FALSE, <<>>)} :
                        IF ~ok
                        THEN /\ log' = Append(log, Entry("connect", <<>>, FALSE, <<>>))
                             /\ pc' = "failed"
                             /\ UNCHANGED <<local, state, walk_todo, rfiles, rdirs, removed_file_count>>
                        ELSE LET r == sftp_remove(config.delete_after_sync, remote_file_path, <<>>,
                                          [rfiles |-> rfiles, rdirs |-> rdirs, count |-> removed_file_count,
                                           log |-> Append(log, Entry("connect", <<>>, TRUE, <<>>)),
                                           raised |-> FALSE],
                                          config.max_file_count, fault)
                             IN /\ rfiles' = r.rfiles
                                /\ rdirs' = r.rdirs
                                /\ removed_file_count' = r.count
                                /\ log' = r.log
                                /\ state' = StoreHash(state, remote_file_path, file_hash)
                                /\ walk_todo' = walk_todo \ {local_file_path}
                                /\ pc' = "walk"
                                /\ UNCHANGED local
    /\ UNCHANGED <<config, run, idx, ldirs, args_state, persisted, current_file_count,
                   writes, start_rfiles, prev_done>>

\* json.dump(state, open(args.state_path, "w"), indent=4)
WriteState ==
    /\ pc = "walk"
    /\ LedgerWriteDue(walk_todo)
    /\ persisted' = state
    /\ writes' = writes + 1
    /\ pc' = "done"
    /\ UNCHANGED <<config, run, idx, rfiles, rdirs, local, ldirs, args_state, state,
                   removed_file_count, current_file_count, walk_todo, log,
                   start_rfiles, prev_done>>

\* the next invocation of the tap with the same configuration: parse_args
\* loads the state file, download starts with removed_file_count = 0
NextRun ==
    /\ pc \in {"done", "failed"}
    /\ run < MaxRuns
    /\ run' = run + 1
    /\ pc' = "start"
    /\ idx' = 1
    /\ args_state' = persisted
    /\ state' = EmptyMap
    /\ removed_file_count' = 0
    /\ current_file_count' = 0
    /\ walk_todo' = {}
    /\ log' = <<>>
    /\ writes' = 0
    /\ start_rfiles' = rfiles
    /\ prev_done' = (pc = "done")
    /\ UNCHANGED <<config, rfiles, rdirs, local, ldirs, persisted>>

Next ==
    \/ Validate
    \/ Connect
    \/ GetFile
    \/ RemoveFile
    \/ DownloadTree
    \/ RemoveTree
    \/ Finish
    \/ BeginReconcile
    \/ ReconcileFile
    \/ WriteState
    \/ NextRun

Spec == Init /\ [][Next]_vars

\* ================================================================= claims
Min(a, b) == IF a <= b THEN a ELSE b

Range(s) == {s[k] : k \in DOMAIN s}

\* the successful removals among the first n calls of the run
OkRemoves(n) == {i \in 1..n : log[i].op = "remove" /\ log[i].ok}

\* no call of the run has failed
NoFailure == \A i \in DOMAIN log : log[i].ok

\* the files below the configured path_prefix in a set of remote files
Below(rf) == {f \in rf : IsPrefix(config.path_prefix, f)}

Bounded == config.delete_after_sync /\ config.max_file_count # 0

\* C1: with delete_after_sync and max_file_count = N (N >= 1), in every mode
\* and phase, at most N remote files are removed over the run, and no remove
\* call is issued once N removals have succeeded.
C1_DeletionsWithinBudget ==
    Bounded =>
        /\ Cardinality(start_rfiles \ rfiles) <= config.max_file_count
        /\ Cardinality(OkRemoves(Len(log))) <= config.max_file_count
        /\ \A i \in DOMAIN log :
             log[i].op = "remove" => Cardinality(OkRemoves(i - 1)) < config.max_file_count

C1_Witness ==
    /\ pc = "done"
    /\ Bounded
    /\ Cardinality(start_rfiles \ rfiles) = config.max_file_count
    /\ config.files # <<>>
    /\ Range(config.files) \cap rfiles # {}

\* C2: every remote path on which a remove is issued is a path whose get
\* completed earlier in the same run.
C2_RemoveOnlyDownloaded ==
    \A i \in DOMAIN log :
        log[i].op = "remove" =>
            \E j \in 1..(i - 1) :
                log[j].op = "get" /\ log[j].ok /\ log[j].path = log[i].path

\* C3: in a non-incremental path_prefix run with delete_after_sync and
\* max_file_count = N over a tree of F files, when no call fails, the run
\* ends without error with exactly min(F, N) files removed and the others
\* still on the remote store.
C3_ExactBudgetExhaustion ==
    (/\ pc \in {"done", "failed"}
     /\ config.files = <<>>
     /\ config.path_prefix # <<>>
     /\ ~config.incremental_mode
     /\ Bounded
     /\ NoFailure)
    => LET F == Cardinality(Below(start_rfiles))
           N == config.max_file_count
       IN /\ pc = "done"
          /\ Cardinality(start_rfiles \ rfiles) = Min(F, N)
          /\ start_rfiles \ rfiles \subseteq Below(start_rfiles)
          /\ Cardinality(Below(rfiles)) = F - Min(F, N)
          /\ Cardinality(OkRemoves(Len(log))) = Min(F, N)

\* C4: max_file_count set without delete_after_sync ends the run in a
\* configuration error before any connection attempt: no session is opened
\* and no list, get or remove is issued.
C4_LimitNeedsDelete ==
    (config.max_file_count # 0 /\ ~config.delete_after_sync) =>
        /\ pc \in {"start", "failed"}
        /\ log = <<>>
        /\ rfiles = start_rfiles

C4_Witness ==
    /\ config.max_file_count # 0
    /\ ~config.delete_after_sync
    /\ pc = "failed"
    /\ log = <<>>

\* the targets a completed non-incremental run had to delete
DeleteTargets ==
    IF config.files # <<>> THEN Range(config.files) \cap start_rfiles
    ELSE Below(start_rfiles)

\* C5: a failed remove aborts neither the run nor the remaining deletion
\* work: when the run is done, every other target eligible for removal has
\* still been attempted unless the budget was used up.
C5_FailedRemoveSkipsNothing ==
    (/\ pc = "done"
     /\ config.delete_after_sync
     /\ ~config.incremental_mode
     /\ \E i \in DOMAIN log : log[i].op = "remove" /\ ~log[i].ok
     /\ \A i \in DOMAIN log : log[i].op = "listdir" => log[i].ok)
    => \A t \in DeleteTargets :
          \/ \E i \in DOMAIN log : log[i].op = "remove" /\ log[i].path = t
          \/ /\ config.max_file_count # 0
             /\ Cardinality(OkRemoves(Len(log))) >= config.max_file_count

\* C6: whenever a connect, listdir or get fails, the run never reaches Done.
C6_TransportFailureFatal ==
    pc = "done" =>
        \A i \in DOMAIN log : log[i].op \in {"connect", "listdir", "get"} => log[i].ok

\* the characters of the names and prefixes of the fixture
Chars(name) ==
    IF name = "bar.csv" THEN <<"b", "a", "r", ".", "c", "s", "v">>
    ELSE IF name = "foo.csv" THEN <<"f", "o", "o", ".", "c", "s", "v">>
    ELSE IF name = "foo2.csv" THEN <<"f", "o", "o", "2", ".", "c", "s", "v">>
    ELSE IF name = "1.csv" THEN <<"1", ".", "c", "s", "v">>
    ELSE IF name = "foo" THEN <<"f", "o", "o">>
    ELSE <<>>

StartsWith(name, prefix) == IsPrefix(Chars(prefix), Chars(name))

\* C7: with tables given, only remote entries whose name starts with one of
\* the prefixes are downloaded: for /a/foo.csv, /a/bar.csv, /a/sub/foo2.csv
\* and tables = ["foo"], /a/bar.csv is not downloaded.
C7_OnlyMatchingDownloaded ==
    (config.files = <<>> /\ config.path_prefix = A /\ config.tables # <<>>) =>
        \A i \in DOMAIN log :
            (log[i].op = "get" /\ log[i].ok) =>
                \E t \in Range(config.tables) : StartsWith(Last(log[i].path), t)

\* C8: when an incremental run that completed is followed by a second
\* incremental run that loads the ledger the first wrote, with no remote call
\* failing, then after the second run no file under target_dir has a hash
\* equal to the loaded ledger entry of its remote path, with
\* delete_after_sync enabled or disabled.
C8_SecondRunDropsSynced ==
    (/\ run >= 2
     /\ prev_done
     /\ config.incremental_mode
     /\ pc \in {"done", "failed"}
     /\ NoFailure) =>
        \A lf \in DOMAIN local :
            LET key == RemoteKey(lf, config.target_dir, config.path_prefix)
            IN ~(key \in DOMAIN args_state /\ args_state[key] = calculate_md5(local[lf]))

\* C9: the persisted ledger is written at most once per run and only when
\* the walk has no file left, as the step that ends the run; a failed run
\* leaves the persisted ledger as it was loaded at run start.
C9_LedgerWrittenOnceAtEnd ==
    /\ [](writes <= 1 /\ (pc = "failed" => (writes = 0 /\ persisted = args_state)))
    /\ [][(persisted' # persisted \/ writes' > writes) =>
            (pc = "walk" /\ walk_todo = {} /\ writes = 0 /\ pc' = "done")]_vars

C9_Witness ==
    /\ pc = "failed"
    /\ config.incremental_mode
    /\ state # args_state
    /\ walk_todo # {}
    /\ persisted = args_state

\* C10: the files list maps every file to target_dir joined with its base
\* name, in list order; paths sharing a base name map to the same local
\* path, whose content after the run is that of the one downloaded last: the
\* last transfer started to a local path decides what it holds, the bytes of
\* that remote file when the transfer succeeded, a truncated file when it
\* raised.
C10_FlatCollision ==
    config.files # <<>> =>
        LET gets == SelectSeq(log, LAMBDA e : e.op = "get")
        IN /\ \A i \in DOMAIN gets :
                /\ gets[i].path = config.files[i]
                /\ gets[i].to = config.target_dir \o <<gets[i].path[Len(gets[i].path)]>>
           /\ (config.files = <<X1, Y1>> /\ Len(gets) = 2) => gets[1].to = gets[2].to
           /\ \A p \in DOMAIN local :
                LET S == {i \in DOMAIN gets : gets[i].to = p}
                    last == CHOOSE i \in S : \A j \in S : j <= i
                IN S # {} =>
                     IF gets[last].ok THEN local[p] = Content[gets[last].path]
                     ELSE local[p] \in Truncated

C10_Witness ==
    /\ pc = "done"
    /\ config.files = <<X1, Y1>>
    /\ Len(SelectSeq(log, LAMBDA e : e.op = "get" /\ e.ok)) = 2
    /\ DOMAIN local = {<<"out", "1.csv">>}
    /\ local[<<"out", "1.csv">>] = "bytes_y_1"

\* the remote path reconciliation derives for a local file
KeyOf(lf) == RemoteKey(lf, config.target_dir, config.path_prefix)

\* the computed hash of a local file equals the ledger entry loaded for its
\* remote path
EqualToLoaded(lf) ==
    KeyOf(lf) \in DOMAIN args_state /\ args_state[KeyOf(lf)] = calculate_md5(local[lf])

\* C11: in an incremental run a local file whose hash equals the loaded
\* ledger entry of its remote path is deleted locally by the walk, with no
\* remote call; no remove is issued on that remote path at any point of the
\* run, and none at all before the walk starts.
C11_EqualKeepsRemote ==
    /\ [](config.incremental_mode =>
            /\ pc \in {"start", "connect", "get", "get_tree", "remove", "remove_tree", "closed"}
                 => \A i \in DOMAIN log : log[i].op # "remove"
            /\ \A i \in DOMAIN log :
                 log[i].op = "remove" =>
                    ~(/\ log[i].path \in DOMAIN args_state
                      /\ log[i].path \in DOMAIN state
                      /\ state[log[i].path] = args_state[log[i].path]))
    /\ [][\A lf \in walk_todo :
            (pc = "walk" /\ lf \notin walk_todo' /\ EqualToLoaded(lf)) =>
                (lf \notin DOMAIN local' /\ rfiles' = rfiles /\ log' = log)]_vars

C11_Witness ==
    /\ pc = "done"
    /\ config.incremental_mode
    /\ config.delete_after_sync
    /\ config.max_file_count = 0
    /\ \E k \in (DOMAIN args_state) \cap rfiles :
         /\ args_state[k] = calculate_md5(Content[k])
         /\ state[k] = args_state[k]
         /\ \E i \in DOMAIN log : log[i].op = "get" /\ log[i].ok /\ log[i].path = k
         /\ \A lf \in DOMAIN local : KeyOf(lf) # k
         /\ \A i \in DOMAIN log : log[i].op = "remove" => log[i].path # k

\* C12: in an incremental run a local file whose hash differs from the
\* loaded ledger entry of its remote path, or has none, is kept locally; with
\* delete_after_sync and budget left (or no limit) exactly its remote path is
\* removed and the counter grows by 1; with the budget used up no remove is
\* issued and the file is kept.  Stated of every step of the walk in which
\* no remote call fails.
C12_DifferentKeptAndRemoved ==
    [][(/\ pc = "walk"
        /\ pc' \in {"walk", "failed"}
        /\ config.path_prefix # <<>>
        /\ Len(log') >= Len(log)
        /\ \A i \in (Len(log) + 1)..Len(log') : log'[i].ok)
       => \E lf \in walk_todo :
            /\ walk_todo' = walk_todo \ {lf}
            /\ \/ EqualToLoaded(lf)
               \/ /\ lf \in DOMAIN local'
                  /\ IF /\ config.delete_after_sync
                        /\ \/ config.max_file_count = 0
                           \/ removed_file_count < config.max_file_count
                     THEN /\ KeyOf(lf) \in rfiles
                          /\ rfiles' = rfiles \ {KeyOf(lf)}
                          /\ removed_file_count' = removed_file_count + 1
                     ELSE /\ rfiles' = rfiles
                          /\ \A i \in (Len(log) + 1)..Len(log') : log'[i].op # "remove"]_vars

\* C13: after a completed incremental run the written ledger maps the remote
\* path of every file the walk visited to the hash computed in this run, in
\* the equal and in the different-or-absent case alike, and every key of the
\* ledger loaded at run start is still a key of it.
C13_LedgerMonotone ==
    /\ [](config.incremental_mode =>
            /\ pc \in {"walk", "done"} => DOMAIN args_state \subseteq DOMAIN state
            /\ pc = "done" =>
                 /\ persisted = state
                 /\ DOMAIN args_state \subseteq DOMAIN persisted
                 /\ \A lf \in DOMAIN local :
                      /\ KeyOf(lf) \in DOMAIN persisted
                      /\ persisted[KeyOf(lf)] = calculate_md5(local[lf]))
    /\ [][\A lf \in walk_todo :
            (pc = "walk" /\ lf \notin walk_todo') =>
                /\ DOMAIN state' = DOMAIN state \cup {KeyOf(lf)}
                /\ state'[KeyOf(lf)] = calculate_md5(local[lf])
                /\ \A k \in DOMAIN state \ {KeyOf(lf)} : state'[k] = state[k]]_vars

C13_Witness ==
    /\ pc = "done"
    /\ config.incremental_mode
    /\ args_state = StaleLedger
    /\ X1 \in DOMAIN persisted
    /\ persisted[X1] = calculate_md5("bytes_x_1")
    /\ \E lf \in DOMAIN local : KeyOf(lf) = X1

\* C14: every run goes through Connect, Select&Download, DeletePhase (when
\* delete_after_sync), ReconcilePhase (when incremental_mode), Done; with
\* both flags the delete phase comes after the downloads and before
\* reconciliation starts: when the walk begins after files were downloaded,
\* their removal has already been issued.
C14_DeleteBeforeReconcile ==
    /\ [](log # <<>> => log[1].op = "connect")
    /\ [][(/\ pc = "closed"
           /\ pc' = "walk"
           /\ config.delete_after_sync
           /\ \E i \in DOMAIN log : log[i].op = "get" /\ log[i].ok)
          => \E i \in DOMAIN log : log[i].op = "remove"]_vars

\* C15: with delete_after_sync disabled sftp_remove is a no-op that returns
\* 0: over a whole run no list or remove call is issued by deletion, no
\* remote file is removed and the run's removal counter stays the number 0.
C15_DisabledDeleteReturnsZero ==
    ~config.delete_after_sync =>
        /\ removed_file_count = 0
        /\ rfiles = start_rfiles
        /\ \A i \in DOMAIN log : log[i].op # "remove"

\* C16: deletion never removes a remote directory: the only destructive
\* remote call issued is the removal of a regular file, and the remote
\* directories, those emptied by rm included, are the ones the run started
\* with.
C16_DirectoriesKept ==
    /\ rdirs = RemoteDirs
    /\ rfiles \subseteq start_rfiles
    /\ \A i \in DOMAIN log :
         /\ log[i].op \in {"connect", "listdir", "get", "remove"}
         /\ log[i].op = "remove" => log[i].path \notin RemoteDirs
         /\ (log[i].op = "remove" /\ log[i].ok) => log[i].path \in RemoteFiles

C16_Witness ==
    /\ pc = "done"
    /\ config.delete_after_sync
    /\ config.path_prefix = A
    /\ config.files = <<>>
    /\ {f \in rfiles : IsPrefix(ASub, f)} = {}
    /\ \E i \in DOMAIN log : log[i].op = "remove" /\ log[i].ok /\ IsPrefix(ASub, log[i].path)
    /\ ASub \in rdirs

\* C17: the run's deletion counter equals the number of remote files removed
\* so far in the run: after every return of sftp_remove in a run with
\* delete_after_sync (single file, directory tree, and a call whose failure
\* part-way was swallowed), removed_file_count is the count of remove calls
\* that succeeded since run start.
C17_CounterCountsRemovals ==
    (config.delete_after_sync /\ pc \in {"get", "closed", "walk", "done"})
        => removed_file_count = Cardinality(OkRemoves(Len(log)))

\* the calls of the run that stored a download at a local path
GetsTo(lf) == {i \in DOMAIN log : log[i].op = "get" /\ log[i].ok /\ log[i].to = lf}

\* the remote path the content of a local file was downloaded from
SourceOf(lf) == log[CHOOSE i \in GetsTo(lf) : \A j \in GetsTo(lf) : j <= i].path

\* C18: in an incremental run the remote path reconciliation derives for a
\* local file is the remote path that file was downloaded from, in each
\* selection mode, the flat files-list mode with path_prefix absent or
\* naming another directory included: the walk derives a path for every
\* file and that path is the file's source.
C18_DerivedPathIsSource ==
    (config.incremental_mode /\ pc = "walk") =>
        \A lf \in walk_todo :
            GetsTo(lf) # {} =>
                /\ config.path_prefix # <<>>
                /\ KeyOf(lf) = SourceOf(lf)

\* the transfers the run's session has started
Transfers == {i \in DOMAIN log : log[i].op = "get"}

\* C19: the capped session keeps current_file_count <= max_file_count: each
\* transfer it starts adds 1 to the count, none is started once the count
\* has reached the cap, and a get past the cap returns without raising, so
\* at most max_file_count files are downloaded through one session.
C19_SessionWithinCap ==
    (Limited /\ pc # "start") =>
        /\ current_file_count <= config.max_file_count
        /\ current_file_count = Cardinality(Transfers)
        /\ Cardinality({lf \in DOMAIN local : GetsTo(lf) # {}}) <= config.max_file_count
        /\ (/\ pc = "failed"
            /\ log # <<>>
            /\ ~config.incremental_mode
            /\ config.files # <<>>) => ~NoFailure

C19_Witness ==
    /\ Limited
    /\ pc = "done"
    /\ NoFailure
    /\ current_file_count = config.max_file_count
    /\ config.files # <<>>
    /\ Len(config.files) > config.max_file_count
    /\ Cardinality(Transfers) = config.max_file_count

====
